---- MODULE Spec2Model ----
(***************************************************************************)
(* Model of the page pipeline of src/App.tsx (the App component that starts *)
(* at line 341): the React state cells, the reset and onFileChange handlers *)
(* and the processFile await chain, one action per continuation between two *)
(* awaits.  Every setState of a continuation is applied in the same step,   *)
(* because React applies queued functional updaters in order and renders    *)
(* once per tick.                                                           *)
(***************************************************************************)
EXTENDS Integers, Sequences, FiniteSets, TLC

\* Number of files the user may upload in one session (processFile invocations).
MaxRuns == 2
\* Largest page count the document source reports.
MaxPages == 2
\* Number of times the user may start an evaluation in one session (handleEvaluate invocations).
MaxEvals == 3

\* Largest page count of a document in the behaviours that include evaluation
\* or are checked for termination.
MaxGradedPages == 1

Runs == 1..MaxRuns
Evals == 1..MaxEvals

\* The texts the extraction backend may answer with ("" is an empty answer).
ResponseTexts == {"", "alpha"}

\* The extraction answers in the behaviours that include evaluation.
GradedTexts == {"alpha"}

\* JavaScript's undefined / null.
Undefined == "undefined"
NoFile == 0
NoImage == <<>>
\* useState<EvaluationReport | null>: <<>> for null, <<object>> for a stored object.
NoReport == <<>>

VARIABLES
    state,          \* useState<ProcessingState>: status, totalPages, currentPage, results, errorMessage
    file,           \* useState<File|null>: the run whose File is stored, NoFile for null
    answerKeyFile,  \* useState<File|null>: TRUE when an answer key is selected
    report,         \* useState<EvaluationReport|null>
    evalLoading,    \* useState(false)
    evalError,      \* useState<string|null>
    epc,            \* per handleEvaluate invocation: the await it is suspended at, or how it ended
    efile,          \* per handleEvaluate invocation: the file of its closure
    eretry,         \* per handleEvaluate invocation (history): an earlier invocation for the same file had failed when it started
    pc,             \* per processFile invocation: the await it is suspended at
    count,          \* per processFile invocation: the local const count (0 outside the loop)
    i               \* per processFile invocation: the loop variable i (0 outside the loop)

vars == <<state, file, answerKeyFile, report, evalLoading, evalError, epc, efile, eretry,
          pc, count, i>>

evalVars == <<answerKeyFile, report, evalLoading, evalError, epc, efile, eretry>>

\* The object literal of useState(...) and of reset's setState(...).
InitialState ==
    [status |-> "idle", totalPages |-> 0, currentPage |-> 0,
     results |-> <<>>, errorMessage |-> Undefined]

FatalMessage == "Failed to process file. Make sure it is a valid PDF."
FailedContent == "Failed to extract content."
NoContent == "No content extracted."

\* The data URL getPageAsDataUrl yields for page n of the file of run r.
getPageAsDataUrl(r, n) == <<r, n>>

\* Array.from({length: n}, (_, i) => ({pageNumber: i+1, content: '', status: 'pending'}))
PendingResults(n) ==
    [k \in 1..n |-> [pageNumber |-> k, content |-> "", status |-> "pending",
                     imageUrl |-> NoImage]]

\* prev.results.map(r => r.pageNumber === n ? {...r, status: 'processing', imageUrl} : r)
MarkProcessing(results, n, url) ==
    [k \in 1..Len(results) |->
        IF results[k].pageNumber = n
        THEN [results[k] EXCEPT !.status = "processing", !.imageUrl = url]
        ELSE results[k]]

\* prev.results.map(r => r.pageNumber === n ? {...r, content: text, status: 'completed'} : r)
MarkCompleted(results, n, text) ==
    [k \in 1..Len(results) |->
        IF results[k].pageNumber = n
        THEN [results[k] EXCEPT !.content = text, !.status = "completed"]
        ELSE results[k]]

\* prev.results.map(r => r.pageNumber === n ? {...r, content: 'Failed...', status: 'error'} : r)
MarkError(results, n) ==
    [k \in 1..Len(results) |->
        IF results[k].pageNumber = n
        THEN [results[k] EXCEPT !.content = FailedContent, !.status = "error"]
        ELSE results[k]]

\* extractContentFromPage's return value: response.text || "No content extracted."
extractContentFromPage(responseText) ==
    IF responseText = "" THEN NoContent ELSE responseText

\* A filter that keeps every page that has content: filter(r => r.content).
RECURSIVE FilterWithContent(_)
FilterWithContent(results) ==
    IF results = <<>> THEN <<>>
    ELSE IF Head(results).content # ""
         THEN <<Head(results)>> \o FilterWithContent(Tail(results))
         ELSE FilterWithContent(Tail(results))

\* Array.prototype.filter(r => r.status === 'completed')
RECURSIVE FilterCompleted(_)
FilterCompleted(results) ==
    IF results = <<>> THEN <<>>
    ELSE IF Head(results).status = "completed"
         THEN <<Head(results)>> \o FilterCompleted(Tail(results))
         ELSE FilterCompleted(Tail(results))

\* Array.prototype.join(sep) on an array of strings
RECURSIVE Join(_, _)
Join(strs, sep) ==
    IF strs = <<>> THEN ""
    ELSE IF Len(strs) = 1 THEN strs[1]
    ELSE strs[1] \o sep \o Join(Tail(strs), sep)

\* The useMemo value: results.filter(completed).map(r => r.content).join('\n\n')
combinedContent ==
    LET kept == FilterCompleted(state.results)
    IN  Join([k \in 1..Len(kept) |-> kept[k].content], "\n\n")

Init ==
    /\ state = InitialState
    /\ file = NoFile
    /\ answerKeyFile = FALSE
    /\ report = NoReport
    /\ evalLoading = FALSE
    /\ evalError = Undefined
    /\ epc = [e \in Evals |-> "init"]
    /\ efile = [e \in Evals |-> NoFile]
    /\ eretry = [e \in Evals |-> FALSE]
    /\ pc = [r \in Runs |-> "init"]
    /\ count = [r \in Runs |-> 0]
    /\ i = [r \in Runs |-> 0]

\* A reset that only returns the status to idle and keeps the rest of the state.
reset_keepsPages ==
    /\ state.status # "idle"
    /\ file' = NoFile
    /\ answerKeyFile' = FALSE
    /\ report' = NoReport
    /\ evalError' = Undefined
    /\ evalLoading' = FALSE
    /\ state' = [state EXCEPT !.status = "idle"]
    /\ UNCHANGED <<epc, efile, eretry, pc, count, i>>

\* reset (the Restart and Try Again buttons, rendered when status is not idle).
reset ==
    /\ state.status # "idle"
    /\ file' = NoFile
    /\ answerKeyFile' = FALSE
    /\ report' = NoReport
    /\ evalError' = Undefined
    /\ evalLoading' = FALSE
    /\ state' = InitialState
    /\ UNCHANGED <<epc, efile, eretry, pc, count, i>>

\* The answer-key input of the idle view: setAnswerKeyFile(files[0] || null).
selectAnswerKey ==
    /\ state.status = "idle"
    /\ \E chosen \in BOOLEAN : answerKeyFile' = chosen
    /\ UNCHANGED <<state, file, report, evalLoading, evalError, epc, efile, eretry, pc, count, i>>

\* onFileChange (the file input, rendered when status is idle): setFile and
\* processFile up to its first await.
onFileChange(r) ==
    /\ state.status = "idle"
    /\ pc[r] = "init"
    /\ \A q \in Runs : q < r => pc[q] # "init"
    /\ file' = r
    /\ state' = [state EXCEPT !.status = "loading", !.errorMessage = Undefined]
    /\ pc' = [pc EXCEPT ![r] = "getPageCount"]
    /\ UNCHANGED <<evalVars, count, i>>

\* The outer catch block of processFile.
CatchFatal(s) == [s EXCEPT !.status = "error", !.errorMessage = FatalMessage]

\* Invocation r returns: its locals are gone.
Return(r) ==
    /\ pc' = [pc EXCEPT ![r] = "done"]
    /\ count' = [count EXCEPT ![r] = 0]
    /\ i' = [i EXCEPT ![r] = 0]

\* A loop exit that returns without the setState of status completed.
AfterLoopTest_forgetsCompleted(r, n, cnt, s) ==
    IF n <= cnt
    THEN /\ state' = s
         /\ pc' = [pc EXCEPT ![r] = "getPageAsDataUrl"]
         /\ count' = [count EXCEPT ![r] = cnt]
         /\ i' = [i EXCEPT ![r] = n]
    ELSE /\ state' = s
         /\ Return(r)

\* The for loop of invocation r is entered or continued with loop variable n,
\* s being the state the queued updaters have produced so far: the next
\* preview await, or the setState after the loop and the return.
AfterLoopTest(r, n, cnt, s) ==
    IF n <= cnt
    THEN /\ state' = s
         /\ pc' = [pc EXCEPT ![r] = "getPageAsDataUrl"]
         /\ count' = [count EXCEPT ![r] = cnt]
         /\ i' = [i EXCEPT ![r] = n]
    ELSE /\ state' = [s EXCEPT !.status = "completed"]
         /\ Return(r)

\* await getPageCount resolves with n pages.
getPageCountResolves(r, n) ==
    /\ pc[r] = "getPageCount"
    /\ AfterLoopTest(r, 1, n,
          [state EXCEPT !.status = "processing", !.totalPages = n,
                        !.currentPage = 1, !.results = PendingResults(n)])
    /\ UNCHANGED <<file, evalVars>>

\* await getPageCount rejects.
getPageCountRejects(r) ==
    /\ pc[r] = "getPageCount"
    /\ state' = CatchFatal(state)
    /\ Return(r)
    /\ UNCHANGED <<file, evalVars>>

\* await getPageAsDataUrl resolves.
getPageAsDataUrlResolves(r) ==
    /\ pc[r] = "getPageAsDataUrl"
    /\ state' = [state EXCEPT !.currentPage = i[r],
                              !.results = MarkProcessing(state.results, i[r],
                                                         getPageAsDataUrl(r, i[r]))]
    /\ pc' = [pc EXCEPT ![r] = "getPageAsImage"]
    /\ UNCHANGED <<file, evalVars, count, i>>

\* A preview await placed inside the inner try block: its failure is per-page.
getPageAsDataUrlRejects_perPage(r) ==
    /\ pc[r] = "getPageAsDataUrl"
    /\ AfterLoopTest(r, i[r] + 1, count[r],
          [state EXCEPT !.results = MarkError(state.results, i[r])])
    /\ UNCHANGED <<file, evalVars>>

\* await getPageAsDataUrl rejects.
getPageAsDataUrlRejects(r) ==
    /\ pc[r] = "getPageAsDataUrl"
    /\ state' = CatchFatal(state)
    /\ Return(r)
    /\ UNCHANGED <<file, evalVars>>

\* await getPageAsImage resolves.
getPageAsImageResolves(r) ==
    /\ pc[r] = "getPageAsImage"
    /\ pc' = [pc EXCEPT ![r] = "extractContentFromPage"]
    /\ UNCHANGED <<state, file, evalVars, count, i>>

\* An inner catch block that rethrows to the outer one.
CatchPage_escalates(r) ==
    /\ state' = CatchFatal(state)
    /\ Return(r)
    /\ UNCHANGED <<file, evalVars>>

\* The inner catch block, then i++ and the loop test.
CatchPage(r) ==
    /\ AfterLoopTest(r, i[r] + 1, count[r],
          [state EXCEPT !.results = MarkError(state.results, i[r])])
    /\ UNCHANGED <<file, evalVars>>

\* await getPageAsImage rejects.
getPageAsImageRejects(r) ==
    /\ pc[r] = "getPageAsImage"
    /\ CatchPage(r)

\* await extractContentFromPage resolves, the backend having answered responseText.
extractContentFromPageResolves(r, responseText) ==
    /\ pc[r] = "extractContentFromPage"
    /\ AfterLoopTest(r, i[r] + 1, count[r],
          [state EXCEPT !.results = MarkCompleted(state.results, i[r],
                                       extractContentFromPage(responseText))])
    /\ UNCHANGED <<file, evalVars>>

\* A rejection handler that runs the inner try block again for the same page.
extractContentFromPageRejects_retries(r) ==
    /\ pc[r] = "extractContentFromPage"
    /\ pc' = [pc EXCEPT ![r] = "getPageAsImage"]
    /\ UNCHANGED <<state, file, evalVars, count, i>>

\* await extractContentFromPage rejects (missing API key or backend error).
extractContentFromPageRejects(r) ==
    /\ pc[r] = "extractContentFromPage"
    /\ CatchPage(r)

\* Any continuation of processFile invocation r, the document having one of
\* the page counts of lengths and the extraction backend answering with one
\* of texts.
processFileOf(r, lengths, texts) ==
    \/ \E n \in lengths : getPageCountResolves(r, n)
    \/ getPageCountRejects(r)
    \/ getPageAsDataUrlResolves(r)
    \/ getPageAsDataUrlRejects(r)
    \/ getPageAsImageResolves(r)
    \/ getPageAsImageRejects(r)
    \/ \E t \in texts : extractContentFromPageResolves(r, t)
    \/ extractContentFromPageRejects(r)

\* Any continuation of processFile invocation r.
processFile(r) == processFileOf(r, 0..MaxPages, ResponseTexts)

\* The page pipeline: uploads, resets and the continuations of processFile.
Next ==
    \/ reset
    \/ \E r \in Runs : onFileChange(r)
    \/ \E r \in Runs : processFile(r)

Spec == Init /\ [][Next]_vars

\* The pipeline on short documents.
NextSettling ==
    \/ reset
    \/ \E r \in Runs : onFileChange(r)
    \/ \E r \in Runs : processFileOf(r, 0..MaxGradedPages, ResponseTexts)

\* The pipeline when every pending call of every invocation eventually
\* succeeds or fails.
SpecSettling ==
    /\ Init /\ [][NextSettling]_vars
    /\ \A r \in Runs : WF_vars(processFileOf(r, 0..MaxGradedPages, ResponseTexts))

\* The pipeline together with the answer-key input of the idle view.
NextSession ==
    \/ Next
    \/ selectAnswerKey

SpecSession == Init /\ [][NextSession]_vars

(***************************************************************************)
(* Evaluation: handleEvaluate of src/App.tsx and processAndEvaluate of      *)
(* src/services/evaluatorService.tsx.  One action per continuation of       *)
(* handleEvaluate between two awaits.                                       *)
(***************************************************************************)

DefaultEvalMessage == "Evaluation failed. Please check your files and try again."
ParseFailedMessage == "Failed to process evaluation report."

\* The messages a rejected backend call may carry ("" is an error without message).
RejectMessages == {"", "backend unavailable"}

\* The keys the response schema requires of an EvaluationReport.
RequiredFields == {"items", "totalScore", "maxPossibleScore", "summary", "improvementAreas"}

\* Objects the backend may answer with.  An item is cut down to its id and scores.
GradedItems == <<[id |-> "q1", score |-> 1, maxScore |-> 2],
                 [id |-> "q2", score |-> 2, maxScore |-> 2]>>
\* A report whose totals are not the sums of its items.
ReportOffSums ==
    [items |-> GradedItems, totalScore |-> 5, maxPossibleScore |-> 10,
     summary |-> "fair", improvementAreas |-> <<"units">>]
\* A JSON object that lacks required keys.
ReportPartial == [summary |-> "fair"]
\* The object JSON.parse("{}") yields.
EmptyObject == <<>>

\* response.text of the backend: no text, text that is not JSON, or the JSON
\* text of an object.
ResponseEmpty == [kind |-> "empty", value |-> EmptyObject]
ResponseInvalid == [kind |-> "invalid", value |-> EmptyObject]
ResponseJson(obj) == [kind |-> "json", value |-> obj]
EvalResponses ==
    {ResponseEmpty, ResponseInvalid, ResponseJson(ReportPartial), ResponseJson(ReportOffSums)}

WellFormed(obj) == RequiredFields \subseteq DOMAIN obj

RECURSIVE SumScores(_)
SumScores(items) ==
    IF items = <<>> THEN 0 ELSE Head(items).score + SumScores(Tail(items))

\* A processAndEvaluate that recomputes totalScore from the items.
processAndEvaluate_rescored(response) ==
    IF response.kind = "invalid"
    THEN [ok |-> FALSE, message |-> ParseFailedMessage, value |-> EmptyObject]
    ELSE LET obj == response.value
         IN  [ok |-> TRUE, message |-> "",
              value |-> IF "items" \in DOMAIN obj /\ "totalScore" \in DOMAIN obj
                        THEN [obj EXCEPT !.totalScore = SumScores(obj.items)]
                        ELSE obj]

\* The try/catch at the end of processAndEvaluate: JSON.parse(response.text || "{}")
\* returned as it is, or the parse error replaced by a new Error.
processAndEvaluate(response) ==
    IF response.kind = "invalid"
    THEN [ok |-> FALSE, message |-> ParseFailedMessage, value |-> EmptyObject]
    ELSE [ok |-> TRUE, message |-> "", value |-> response.value]

\* The "Grade Paper Now" button is rendered and enabled.
GradeButton == report = NoReport /\ ~evalLoading /\ answerKeyFile
\* The "Try again" link of the evaluation error box is rendered.
TryAgainLink == ~evalLoading /\ evalError # Undefined

\* handleEvaluate up to its first await, or its early return.  Both buttons
\* are inside the block rendered when status is completed.
handleEvaluate(e) ==
    /\ state.status = "completed"
    /\ GradeButton \/ TryAgainLink
    /\ epc[e] = "init"
    /\ \A q \in Evals : q < e => epc[q] # "init"
    /\ IF file = NoFile \/ ~answerKeyFile
       THEN /\ epc' = [epc EXCEPT ![e] = "returned"]
            /\ UNCHANGED <<evalLoading, evalError, efile, eretry>>
       ELSE /\ evalLoading' = TRUE
            /\ evalError' = Undefined
            /\ epc' = [epc EXCEPT ![e] = "toBase64"]
            /\ efile' = [efile EXCEPT ![e] = file]
            /\ eretry' = [eretry EXCEPT ![e] =
                              \E q \in Evals : epc[q] = "failed" /\ efile[q] = file]
    /\ UNCHANGED <<state, file, answerKeyFile, report, pc, count, i>>

\* catch (e) { setEvalError(e?.message || default) } finally { setEvalLoading(false) }
CatchEvaluate(e, message) ==
    /\ evalError' = IF message = "" THEN DefaultEvalMessage ELSE message
    /\ evalLoading' = FALSE
    /\ epc' = [epc EXCEPT ![e] = "failed"]
    /\ UNCHANGED report

\* await Promise.all([toBase64(file), toBase64(answerKeyFile)]) resolves: the
\* backend call is issued.
toBase64Resolves(e) ==
    /\ epc[e] = "toBase64"
    /\ epc' = [epc EXCEPT ![e] = "processAndEvaluate"]
    /\ UNCHANGED <<state, file, answerKeyFile, report, evalLoading, evalError, efile, eretry,
                   pc, count, i>>

\* await Promise.all(...) rejects: reader.onerror rejects with an event, which
\* has no message.
toBase64Rejects(e) ==
    /\ epc[e] = "toBase64"
    /\ CatchEvaluate(e, "")
    /\ UNCHANGED <<state, file, answerKeyFile, efile, eretry, pc, count, i>>

\* await processAndEvaluate settles, the backend having answered response.
processAndEvaluateResolves(e, response) ==
    /\ epc[e] = "processAndEvaluate"
    /\ LET outcome == processAndEvaluate(response)
       IN  IF outcome.ok
           THEN /\ report' = <<outcome.value>>
                /\ evalLoading' = FALSE
                /\ epc' = [epc EXCEPT ![e] = "succeeded"]
                /\ UNCHANGED evalError
           ELSE CatchEvaluate(e, outcome.message)
    /\ UNCHANGED <<state, file, answerKeyFile, efile, eretry, pc, count, i>>

\* A rejection handler that also reports the failure as the pipeline's error.
processAndEvaluateRejects_escalates(e, message) ==
    /\ epc[e] = "processAndEvaluate"
    /\ CatchEvaluate(e, message)
    /\ state' = [state EXCEPT !.status = "error", !.errorMessage = message]
    /\ UNCHANGED <<file, answerKeyFile, efile, eretry, pc, count, i>>

\* await processAndEvaluate rejects because the backend call failed.
processAndEvaluateRejects(e, message) ==
    /\ epc[e] = "processAndEvaluate"
    /\ CatchEvaluate(e, message)
    /\ UNCHANGED <<state, file, answerKeyFile, efile, eretry, pc, count, i>>

\* Any step of handleEvaluate invocation e.
evaluate(e) ==
    \/ handleEvaluate(e)
    \/ toBase64Resolves(e)
    \/ toBase64Rejects(e)
    \/ \E response \in EvalResponses : processAndEvaluateResolves(e, response)
    \/ \E message \in RejectMessages : processAndEvaluateRejects(e, message)

\* The whole component: the pipeline, the answer-key input and the evaluation.
\* handleEvaluate sends the files themselves and never reads the extracted
\* texts, so the documents here are short and answered with one text.
NextEvaluation ==
    \/ reset
    \/ selectAnswerKey
    \/ \E r \in Runs : onFileChange(r)
    \/ \E r \in Runs : processFileOf(r, 0..MaxGradedPages, GradedTexts)
    \/ \E e \in Evals : evaluate(e)

SpecEvaluation == Init /\ [][NextEvaluation]_vars

(***************************************************************************)
(* Properties                                                              *)
(***************************************************************************)

Terminal == {"completed", "error"}

\* Invocation r is suspended at one of the awaits of processFile.
Suspended(r) ==
    pc[r] \in {"getPageCount", "getPageAsDataUrl", "getPageAsImage",
               "extractContentFromPage"}

\* Invocation r is the run of the file now stored: no reset since it started.
Live(r) == file = r

\* reset was called after invocation r started and r still has an await pending.
Abandoned(r) == Suspended(r) /\ file # r

\* C1: once reset has been called during a run, no later continuation of that
\* abandoned run changes the PipelineState (status, totalPages, currentPage,
\* pages, errorMessage).
C1_AbandonedRunDiscarded ==
    [][\A r \in Runs : (Abandoned(r) /\ processFile(r)) => state' = state]_vars

\* C2: the state immediately after reset() has status idle, no pages,
\* totalPages 0, currentPage 0 and no errorMessage, whatever the state before.
C2_ResetYieldsIdle ==
    [][reset => /\ state'.status = "idle"
                /\ state'.results = <<>>
                /\ state'.totalPages = 0
                /\ state'.currentPage = 0
                /\ state'.errorMessage = Undefined]_vars

\* reset has just been called in the middle of a run.
C2_Witness ==
    /\ state = InitialState
    /\ file = NoFile
    /\ \E r \in Runs : Suspended(r)

\* One page record may go from p to q in one published step: unchanged status
\* (and, once terminal, unchanged content), pending to processing, or
\* processing to completed or error.
PageStepAllowed(p, q) ==
    \/ /\ q.status = p.status
       /\ p.status \in Terminal => q.content = p.content
    \/ p.status = "pending" /\ q.status = "processing"
    \/ p.status = "processing" /\ q.status \in Terminal

\* C3: every page's status only moves pending -> processing -> completed or
\* error; no page skips processing, and a completed or error page keeps its
\* status and content for the rest of the run.
C3_PageStatusOrder ==
    [][\A k \in 1..Len(state.results) :
          k <= Len(state'.results)
             => PageStepAllowed(state.results[k], state'.results[k])]_vars

\* C4: in a run that is not reset, when the extraction of page k fails, page k
\* becomes error and the loop goes on to page k+1; when the loop of such a run
\* ends, every page 1..N of the run has a terminal status.
C4_ExtractionFailureIsLocal ==
    [][\A r \in Runs :
          (Live(r) /\ file' = r) =>
             /\ extractContentFromPageRejects(r) =>
                   /\ i[r] <= Len(state'.results)
                   /\ state'.results[i[r]].status = "error"
                   /\ i[r] < count[r] =>
                         (pc'[r] = "getPageAsDataUrl" /\ i'[r] = i[r] + 1)
             /\ (pc[r] \in {"getPageAsImage", "extractContentFromPage"}
                   /\ pc'[r] = "done") =>
                   \A k \in 1..count[r] :
                      /\ k <= Len(state'.results)
                      /\ state'.results[k].status \in Terminal]_vars

\* C5: the overall status becomes error only in a step in which a page-count
\* query or a preview render fails; a run whose loop ends, whatever the pages'
\* statuses, ends with overall status completed.
C5_FatalOnlyFromCountOrPreview ==
    [][/\ (state.status # "error" /\ state'.status = "error") =>
             \E r \in Runs : /\ pc[r] \in {"getPageCount", "getPageAsDataUrl"}
                             /\ pc'[r] = "done"
       /\ \A r \in Runs :
             (pc[r] \in {"getPageAsImage", "extractContentFromPage"}
                /\ pc'[r] = "done") => state'.status = "completed"]_vars

\* A run has ended with every one of its pages in error and status completed.
C5_Witness ==
    /\ state.status = "completed"
    /\ Len(state.results) = MaxPages
    /\ \A k \in 1..Len(state.results) : state.results[k].status = "error"
    /\ \E r \in Runs : Live(r) /\ pc[r] = "done"

\* C6: when the page-count query of a run that is not reset fails, the run
\* ends with status error, errorMessage set, no pages and totalPages 0, and it
\* issues no render or extraction call.
C6_CountFailureLeavesNoPages ==
    [][\A r \in Runs :
          (Live(r) /\ getPageCountRejects(r)) =>
             /\ state'.status = "error"
             /\ state'.errorMessage # Undefined
             /\ state'.results = <<>>
             /\ state'.totalPages = 0
             /\ pc'[r] = "done"]_vars

\* Invocation r leaves its preview await otherwise than by the render's success.
PreviewFails(r) ==
    /\ pc[r] = "getPageAsDataUrl"
    /\ <<pc'[r], i'[r]>> # <<pc[r], i[r]>>
    /\ pc'[r] # "getPageAsImage"

\* Invocation r leaves its extraction-quality render await otherwise than by
\* the render's success.
ImageFails(r) ==
    /\ pc[r] = "getPageAsImage"
    /\ <<pc'[r], i'[r]>> # <<pc[r], i[r]>>
    /\ pc'[r] # "extractContentFromPage"

\* C7 as stated: whenever producing an image of a page fails in a run that is
\* not reset (the preview or the extraction-quality render), status becomes
\* error with errorMessage set, the invocation ends, and no page record changes.
C7_AnyRenderFailureIsFatal ==
    [][\A r \in Runs :
          (Live(r) /\ (PreviewFails(r) \/ ImageFails(r))) =>
             /\ state'.status = "error"
             /\ state'.errorMessage = FatalMessage
             /\ pc'[r] = "done"
             /\ state'.results = state.results]_vars

\* C7: a failing preview render is fatal to the run and not per-page: status
\* becomes error with errorMessage set, the invocation ends (no later render
\* or extraction), and no page record changes, so the failing page is not
\* marked error.
C7_PreviewFailureIsFatal ==
    [][\A r \in Runs :
          /\ PreviewFails(r) =>
                /\ state'.status = "error"
                /\ state'.errorMessage = FatalMessage
                /\ pc'[r] = "done"
                /\ state'.results = state.results
          /\ pc[r] = "done" => pc'[r] = "done"]_vars

\* The preview render of page 2 of the stored file's run failed: the run is
\* over with page 1 handled, status is error and page 2 is still pending.
C7_Witness ==
    \E r \in Runs :
       /\ Live(r)
       /\ pc[r] = "done"
       /\ state.status = "error"
       /\ state.errorMessage = FatalMessage
       /\ Len(state.results) = 2
       /\ state.results[1].status \in Terminal
       /\ state.results[1].imageUrl = getPageAsDataUrl(r, 1)
       /\ state.results[2] = PendingResults(2)[2]

\* The contents of the completed pages numbered 1..n, in page-number order.
RECURSIVE CompletedContents(_)
CompletedContents(n) ==
    IF n = 0 THEN <<>>
    ELSE LET at == {k \in 1..Len(state.results) : state.results[k].pageNumber = n}
         IN  CompletedContents(n - 1) \o
             (IF at # {} /\ state.results[CHOOSE k \in at : TRUE].status = "completed"
              THEN <<state.results[CHOOSE k \in at : TRUE].content>>
              ELSE <<>>)

\* The pieces, each but the first preceded by one blank line.
RECURSIVE WithBlankLines(_)
WithBlankLines(pieces) ==
    IF pieces = <<>> THEN ""
    ELSE IF Len(pieces) = 1 THEN pieces[1]
    ELSE WithBlankLines(SubSeq(pieces, 1, Len(pieces) - 1))
            \o "\n\n" \o pieces[Len(pieces)]

\* C8: the combined transcript is the contents of exactly the completed pages,
\* in increasing page-number order, separated by one blank line; pending,
\* processing and error pages contribute nothing.
C8_TranscriptOfCompletedPages ==
    /\ combinedContent = WithBlankLines(CompletedContents(state.totalPages))
    /\ Len(CompletedContents(state.totalPages)) =
          Cardinality({k \in 1..Len(state.results) :
                          state.results[k].status = "completed"})

\* Two pages are completed with different texts.
C8_Witness ==
    /\ Len(state.results) = 2
    /\ state.results[1].status = "completed"
    /\ state.results[2].status = "completed"
    /\ combinedContent = "alpha\n\nNo content extracted."

\* C9: in the state in which a run that is not reset learns its page count N,
\* pages holds exactly N records numbered 1..N, all pending, with empty content
\* and no preview; from then on pages.length = totalPages = N in every state
\* of that run.
C9_PagesAllocatedWithTotal ==
    [][\A r \in Runs :
          (Live(r) /\ file' = r) =>
             /\ (pc[r] = "getPageCount" /\ pc'[r] # "getPageCount"
                   /\ state'.status # "error") =>
                   /\ state'.totalPages = count'[r]
                   /\ state'.results = PendingResults(count'[r])
             /\ (pc[r] \in {"getPageAsDataUrl", "getPageAsImage",
                            "extractContentFromPage"}) =>
                   /\ Len(state'.results) = count[r]
                   /\ state'.totalPages = count[r]]_vars

\* C10: from the start of a run until it reaches completed or error,
\* currentPage never decreases from one published state to the next.
C10_CurrentPageMonotone ==
    [][\A r \in Runs :
          (Live(r) /\ file' = r /\ Suspended(r))
             => state'.currentPage >= state.currentPage]_vars

\* C11: at every reachable state at most one page-extraction backend call is
\* in flight and at most one page has status processing.
C11_OneExtractionInFlight ==
    /\ Cardinality({r \in Runs : pc[r] = "extractContentFromPage"}) <= 1
    /\ Cardinality({k \in 1..Len(state.results) :
                       state.results[k].status = "processing"}) <= 1

\* C19: currentPage is 0 while status is idle or loading, and otherwise it is
\* a page number of the document: 1 <= currentPage <= totalPages.
C19_CurrentPageInRange ==
    IF state.status \in {"idle", "loading"}
    THEN state.currentPage = 0
    ELSE 1 <= state.currentPage /\ state.currentPage <= state.totalPages

\* C20: errorMessage is set only while status is error.
C20_ErrorMessageOnlyInError ==
    state.errorMessage # Undefined => state.status = "error"

\* The evaluation backend call of invocation e is outstanding.
InFlight(e) == epc[e] = "processAndEvaluate"

\* C12: at most one evaluation backend call is in flight per session: no two
\* outstanding calls were started for the same uploaded file.
C12_OneEvaluationPerSession ==
    \A e1, e2 \in Evals :
        InFlight(e1) /\ InFlight(e2) /\ efile[e1] = efile[e2] => e1 = e2

\* C13: when an evaluation invoked after an earlier invocation of the same
\* session had failed succeeds, the stored evaluation state is succeeded with
\* that call's report and no stored error.
C13_RetrySucceeds ==
    [][\A e \in Evals : \A response \in EvalResponses :
          /\ eretry[e]
          /\ processAndEvaluateResolves(e, response)
          /\ processAndEvaluate(response).ok
          => /\ report' = <<processAndEvaluate(response).value>>
             /\ evalError' = Undefined
             /\ ~evalLoading']_vars

\* C14: when the backend's response is not a well-formed report (text that is
\* not JSON, no text, or an object lacking required keys) the evaluation
\* fails: an error is stored and no report is stored by that step.
C14_MalformedResponseFails ==
    [][\A e \in Evals : \A response \in EvalResponses :
          /\ processAndEvaluateResolves(e, response)
          /\ response.kind # "json" \/ ~WellFormed(response.value)
          => /\ evalError' # Undefined
             /\ report' = report
             /\ epc'[e] = "failed"]_vars

\* C15: a well-formed backend report is returned and stored unchanged: the
\* same items in the same order and the backend's totalScore and
\* maxPossibleScore verbatim, also when they differ from the sums of the items.
C15_ReportPassedThrough ==
    [][\A e \in Evals : \A response \in EvalResponses :
          /\ processAndEvaluateResolves(e, response)
          /\ response.kind = "json" /\ WellFormed(response.value)
          => /\ report' = <<response.value>>
             /\ report'[1].items = response.value.items
             /\ report'[1].totalScore = response.value.totalScore
             /\ report'[1].maxPossibleScore = response.value.maxPossibleScore]_vars

\* A stored report whose totalScore is not the sum of its items' scores.
C15_Witness ==
    /\ report # NoReport
    /\ WellFormed(report[1])
    /\ Len(report[1].items) = 2
    /\ report[1].totalScore # SumScores(report[1].items)

\* C16: no step of an evaluation (its start or early return, the file
\* encoding, the success or the failure of the backend call) changes the
\* pipeline state: status, totalPages, currentPage, results and errorMessage.
C16_EvaluateLeavesPipelineState ==
    [][(\E e \in Evals : evaluate(e)) => state' = state]_vars

\* A failed evaluation beside a completed pipeline without error message.
C16_Witness ==
    /\ \E e \in Evals : epc[e] = "failed" /\ efile[e] = file
    /\ evalError = "backend unavailable"
    /\ state.status = "completed"
    /\ state.errorMessage = Undefined

\* C17: the evaluation backend call is issued only in a state where the
\* pipeline status is completed and both the primary document and the answer
\* key are present; an evaluation invoked without one of the two files issues
\* no call and leaves report, error and in-progress flag unchanged.
C17_CallIssuedOnlyWhenGated ==
    [][\A e \in Evals :
          /\ toBase64Resolves(e)
             => state.status = "completed" /\ file # NoFile /\ answerKeyFile
          /\ handleEvaluate(e) /\ (file = NoFile \/ ~answerKeyFile)
             => /\ epc'[e] = "returned"
                /\ UNCHANGED <<report, evalError, evalLoading>>]_vars

\* C18: the evaluation state is exactly one of none, in-progress,
\* succeeded(report) and failed(error): of the in-progress flag, a stored
\* report and a stored error at most one is present, so a report and an
\* error are never stored at the same time.
C18_EvaluationStateExclusive ==
    /\ ~(report # NoReport /\ evalError # Undefined)
    /\ evalLoading => report = NoReport /\ evalError = Undefined

\* How far invocation r of processFile has come: the await it is suspended
\* at, ordered as the code reaches them (the page-count query, then for each
\* page its preview render, its extraction-quality render and its extraction
\* call), and past every await once it has returned.
RunPosition(pcs, is, r) ==
    CASE pcs[r] = "init" -> 0
      [] pcs[r] = "getPageCount" -> 1
      [] pcs[r] = "getPageAsDataUrl" -> 3 * is[r] - 1
      [] pcs[r] = "getPageAsImage" -> 3 * is[r]
      [] pcs[r] = "extractContentFromPage" -> 3 * is[r] + 1
      [] OTHER -> 3 * MaxPages + 2

\* How far invocation e of handleEvaluate has come.
EvalPosition(epcs, e) ==
    CASE epcs[e] = "init" -> 0
      [] epcs[e] = "toBase64" -> 1
      [] epcs[e] = "processAndEvaluate" -> 2
      [] OTHER -> 3

\* No invocation ever returns to an await it has left: every backend
\* operation of a run, and the backend call of an evaluation, is issued at
\* most once.
NoOperationReissued ==
    /\ \A r \in Runs :
          RunPosition(pc', i', r) # RunPosition(pc, i, r)
          => RunPosition(pc', i', r) > RunPosition(pc, i, r)
    /\ \A e \in Evals :
          EvalPosition(epc', e) # EvalPosition(epc, e)
          => EvalPosition(epc', e) > EvalPosition(epc, e)

\* C21 as stated: no operation is issued again, and every evaluate
\* invocation issues exactly one backend call, so that an invocation ends
\* only out of that call.
C21_ExactlyOneEvaluationCall ==
    [][/\ NoOperationReissued
       /\ \A e \in Evals :
             EvalPosition(epc, e) < 3 /\ EvalPosition(epc', e) = 3
             => epc[e] = "processAndEvaluate"]_vars

\* C21: within one run no backend operation is issued again, also after a
\* failure, and every evaluate invocation issues at most one backend call:
\* the one it succeeds with, and none when it returns early.
C21_NoAutomaticRetry ==
    [][/\ NoOperationReissued
       /\ \A e \in Evals :
             /\ epc'[e] = "succeeded" /\ epc[e] # "succeeded"
                => epc[e] = "processAndEvaluate"
             /\ epc'[e] = "returned" /\ epc[e] # "returned"
                => epc[e] = "init"]_vars

\* A run that went on after a failed page, beside an evaluation that ended
\* in failure and one that returned early.
C21_Witness ==
    /\ \E r \in Runs :
          /\ pc[r] = "done" /\ Live(r)
          /\ state.status = "completed"
          /\ \E k \in 1..Len(state.results) : state.results[k].status = "error"
    /\ \E e \in Evals : epc[e] = "failed"

\* C22: in every state with status processing, every page numbered below
\* currentPage is completed or error and every page numbered above
\* currentPage is pending.
C22_PagesInOrder ==
    state.status = "processing" =>
        \A k \in 1..Len(state.results) :
            /\ state.results[k].pageNumber < state.currentPage
               => state.results[k].status \in {"completed", "error"}
            /\ state.results[k].pageNumber > state.currentPage
               => state.results[k].status = "pending"

\* The steps of the overall status along idle -> loading -> processing ->
\* completed, loading -> error and processing -> error, and back to idle from
\* anywhere by reset.  For a document without pages the updaters that set
\* processing and completed are applied in the same step.
StatusStepAllowed(s, t) ==
    \/ s.status = t.status
    \/ s.status = "idle" /\ t.status = "loading"
    \/ s.status = "loading" /\ t.status \in {"processing", "error"}
    \/ s.status = "loading" /\ t.status = "completed" /\ t.totalPages = 0
    \/ s.status = "processing" /\ t.status \in {"completed", "error"}
    \/ t.status = "idle" /\ reset

\* C23: the overall status moves only along idle -> loading -> processing ->
\* completed, idle -> loading -> error or loading -> processing -> error;
\* completed and error are left only by reset, and a run is started only
\* from idle.
C23_StatusLifecycle ==
    [][/\ StatusStepAllowed(state, state')
       /\ state.status \in Terminal /\ state'.status # state.status => reset
       /\ \A r \in Runs : pc[r] = "init" /\ pc'[r] # "init"
                            => state.status = "idle"]_vars

\* C24: whenever the overall status is completed, every page record has a
\* terminal status and there are totalPages page records.
C24_CompletedMeansAllPagesTerminal ==
    state.status = "completed" =>
        /\ Len(state.results) = state.totalPages
        /\ \A k \in 1..Len(state.results) :
              state.results[k].status \in {"completed", "error"}

\* Invocation e of handleEvaluate is pending although the session that
\* started it has been reset.
StaleEvaluation(e) ==
    /\ epc[e] \in {"toBase64", "processAndEvaluate"}
    /\ efile[e] # file

\* C25: reset leaves the evaluation state none (no report, no error, not in
\* progress), and an evaluation that was pending when reset was called does
\* not, on resolving or failing, store a report or an error or change the
\* in-progress flag.
C25_StaleEvaluationDiscarded ==
    [][/\ reset => report' = NoReport /\ evalError' = Undefined /\ ~evalLoading'
       /\ \A e \in Evals :
             StaleEvaluation(e) /\ epc'[e] # epc[e]
             => UNCHANGED <<report, evalError, evalLoading>>]_vars

\* An evaluation started by the current session has not ended yet.
OutstandingInSession ==
    \E e \in Evals :
        /\ epc[e] \in {"toBase64", "processAndEvaluate"}
        /\ efile[e] = file

\* C26: the in-progress flag is true in exactly the states where an
\* evaluation started by the current session is outstanding.
C26_LoadingIffOutstanding ==
    evalLoading <=> OutstandingInSession

\* C27: when the preview render of page i fails in the run of the stored
\* file, the status becomes error, the page records are as they were, page i
\* is pending without preview, the pages after it are pending and the pages
\* before it are completed or error; and a state with status error that has
\* page records (the error of a preview render) changes only by reset.
C27_PreviewFailureFreezesPages ==
    [][/\ \A r \in Runs :
             Live(r) /\ getPageAsDataUrlRejects(r) =>
                /\ state'.status = "error"
                /\ state'.results = state.results
                /\ Len(state'.results) = count[r]
                /\ \A k \in 1..Len(state'.results) :
                      /\ k = i[r] => /\ state'.results[k].status = "pending"
                                     /\ state'.results[k].imageUrl = NoImage
                      /\ k > i[r] => state'.results[k].status = "pending"
                      /\ k < i[r] => state'.results[k].status \in {"completed", "error"}
       /\ state.status = "error" /\ Len(state.results) > 0 /\ state' # state
          => reset]_vars

\* C28: when the extraction-quality render of page i fails in the run of the
\* stored file, page i gets status error with content "Failed to extract
\* content.", and if a page follows the overall status stays processing and
\* the loop continues with the preview render of page i + 1.
C28_ImageFailureIsPerPage ==
    [][\A r \in Runs :
          Live(r) /\ getPageAsImageRejects(r) =>
             /\ i[r] <= Len(state'.results)
             /\ state'.results[i[r]].status = "error"
             /\ state'.results[i[r]].content = FailedContent
             /\ i[r] < count[r] =>
                   /\ state'.status = "processing"
                   /\ pc'[r] = "getPageAsDataUrl"
                   /\ i'[r] = i[r] + 1]_vars

\* reset has not been called so far: no invocation other than the one of the
\* stored file was ever started.
NoReset == \A r \in Runs : pc[r] # "init" => file = r

\* C29: as long as reset is not called, a run whose calls all eventually
\* succeed or fail eventually reaches overall status completed or error; and
\* while one of its calls is pending the overall status is loading or
\* processing, so it stays there for as long as the call does not return.
C29_RunTerminates ==
    /\ \A r \in Runs :
          (Suspended(r) /\ NoReset) ~> (state.status \in Terminal \/ ~NoReset)
    /\ [](\A r \in Runs :
            Suspended(r) /\ NoReset => state.status \in {"loading", "processing"})

\* A run that was never reset has returned after handling every page of a
\* document with pages.
C29_Witness ==
    /\ NoReset
    /\ \E r \in Runs : pc[r] = "done"
    /\ state.status = "completed"
    /\ state.totalPages >= 1
    /\ Len(state.results) = state.totalPages

\* C30: a page whose status is pending or processing has empty content, a
\* page whose status is error has content "Failed to extract content.", and
\* a page whose status is completed has a text that extractContentFromPage
\* returns.
C30_ContentMatchesStatus ==
    \A k \in 1..Len(state.results) :
        LET page == state.results[k]
        IN  /\ page.status \in {"pending", "processing"} => page.content = ""
            /\ page.status = "error" => page.content = FailedContent
            /\ page.status = "completed" =>
                  page.content \in {extractContentFromPage(t) : t \in ResponseTexts}

\* C31: a page has a preview image if and only if its status is not pending.
C31_PreviewIffNotPending ==
    \A k \in 1..Len(state.results) :
        state.results[k].imageUrl # NoImage <=> state.results[k].status # "pending"

\* C32: when the extraction call of the stored file's run resolves
\* with empty text, extractContentFromPage returns "No content extracted.",
\* the page is marked completed with that content, and the page is among the
\* completed pages the combined transcript is built from.
C32_EmptyTextPlaceholder ==
    [][\A r \in Runs :
          Live(r) /\ extractContentFromPageResolves(r, "") =>
             /\ extractContentFromPage("") = NoContent
             /\ i[r] <= Len(state'.results)
             /\ state'.results[i[r]].status = "completed"
             /\ state'.results[i[r]].content = NoContent
             /\ \E k \in 1..Len(FilterCompleted(state'.results)) :
                   /\ FilterCompleted(state'.results)[k].pageNumber = i[r]
                   /\ FilterCompleted(state'.results)[k].content = NoContent]_vars

====
